---- MODULE Spec2Model ----
(***************************************************************************)
(* Model of src/parsec/combinator.rs: the parser combinators pack, try,    *)
(* fail, either, bind, then and over, and the methods or, then, over and   *)
(* bind of the composites, run against a VecState cursor.                  *)
(*                                                                         *)
(* A parser value is a tree (a record); invoking it is the operator Call,  *)
(* which threads the VecState through the constituents exactly as the      *)
(* closures and the call_once / call_mut implementations do.  Every        *)
(* invocation of a constituent is logged in a trace of call / ret events   *)
(* (and binder events), keyed by the path of field names leading from the  *)
(* invoked value to the constituent.                                       *)
(*                                                                         *)
(* Success payloads (Arc<R>) are integers: no combinator inspects them.    *)
(***************************************************************************)
EXTENDS Integers, Sequences, FiniteSets, TLC

VARIABLES state, parser, owned, calls, start, result, trace, via, made, first

vars == <<state, parser, owned, calls, start, result, trace, via, made, first>>

(* ---------------------------- bounds ----------------------------------- *)

MaxLen == 2      \* tokens in the buffer of a stream
MaxLit == 2      \* longest token sequence a user-supplied parser matches
MaxCalls == 2    \* invocations of one parser value
MaxWrap == 1     \* try wrappers put around one parser value

(* ------------------------ universe of inputs --------------------------- *)

Tokens == {"a", "b"}
Values == {1, 42}
Msgs == {"x"}
Binders == {"ifone", "token"}

RECURSIVE SeqsUpTo(_, _)
SeqsUpTo(S, n) ==
    IF n = 0 THEN {<<>>}
    ELSE LET shorter == SeqsUpTo(S, n - 1)
         IN  shorter \cup {Append(s, t) : s \in {q \in shorter : Len(q) = n - 1}, t \in S}

\* a parser only reads forward from the cursor: a shorter stream is the tail of
\* a stream of MaxLen tokens
Buffers == {b \in SeqsUpTo(Tokens, MaxLen) : Len(b) = MaxLen}
\* every buffer is tried, so the expected tokens before the last can be fixed
Literals ==
    {ts \in SeqsUpTo(Tokens, MaxLit) \ {<<>>} : \A i \in 1..(Len(ts) - 1) : ts[i] = "a"}

(* ------------------------- VecState, SimpleError ----------------------- *)

VecState(buffer, index) == [buffer |-> buffer, index |-> index]
pos(st) == st.index
seek_to(st, to) == [st EXCEPT !.index = to]

SimpleError(at, message) == [pos |-> at, message |-> message]

\* Status<T> = Result<Arc<T>, SimpleError>
Ok(v) == [ok |-> TRUE, val |-> v]
Err(e) == [ok |-> FALSE, err |-> e]
is_ok(val) == val.ok
is_err(val) == ~val.ok

(* ----------------------------- parser values --------------------------- *)

None == [kind |-> "none"]

\* the closures returned by pack, try and fail, with what they capture
pack(data) == [kind |-> "pack", data |-> data]
try(parsec) == [kind |-> "try", parsec |-> parsec]
fail(msg) == [kind |-> "fail", msg |-> msg]

\* a user-supplied Parsec: matches the tokens ts one by one
lit(ts) == [kind |-> "lit", ts |-> ts]

either(x, y) == [kind |-> "Either", x |-> x, y |-> y]
bind(parsec, binder) == [kind |-> "Bind", parsec |-> parsec, binder |-> binder]
then(prefix, postfix) == [kind |-> "Then", prefix |-> prefix, postfix |-> postfix]
over(prefix, postfix) == [kind |-> "Over", prefix |-> prefix, postfix |-> postfix]

\* or that puts the new alternative in front
Either_or_Swapped(self, p) == either(p, self)

\* over of a Bind that builds the Then of the method next to it
Bind_over_AsThen(self, postfix) == [kind |-> "Then", prefix |-> self, postfix |-> postfix]

\* the methods of the composites: each boxes self and builds the next composite
Either_or(self, p) == either(self, p)
Bind_over(self, postfix) == [kind |-> "Over", prefix |-> self, postfix |-> postfix]
Bind_bind(self, binder) == [kind |-> "Bind", parsec |-> self, binder |-> binder]
Bind_then(self, postfix) == [kind |-> "Then", prefix |-> self, postfix |-> postfix]
Then_over(self, postfix) == [kind |-> "Over", prefix |-> self, postfix |-> postfix]
Then_then(self, postfix) == [kind |-> "Then", prefix |-> self, postfix |-> postfix]
Then_bind(self, binder) == [kind |-> "Bind", parsec |-> self, binder |-> binder]
Over_over(self, postfix) == [kind |-> "Over", prefix |-> self, postfix |-> postfix]
Over_then(self, postfix) == [kind |-> "Then", prefix |-> self, postfix |-> postfix]
Over_bind(self, binder) == [kind |-> "Bind", parsec |-> self, binder |-> binder]

\* the methods each kind of parser value has (its impl block)
Methods(kind) ==
    CASE kind = "Either" -> {"or"}
      [] kind \in {"Bind", "Then", "Over"} -> {"over", "bind", "then"}
      [] OTHER -> {}

\* a user-supplied binder: Fn(Arc<C>) -> Parsec<T, P>
ApplyBinder(binder, v) ==
    IF binder = "ifone"
    THEN (IF v = 1 THEN pack(99) ELSE fail("no"))
    ELSE (IF v = 1 THEN lit(<<"a">>) ELSE lit(<<"b">>))

Leaves == {pack(v) : v \in Values} \cup {fail(m) : m \in Msgs} \cup {lit(ts) : ts \in Literals}
Args == Leaves \cup {try(p) : p \in Leaves}

\* operands of the methods, and the values the methods are called on
ChainArgs == {pack(1), fail("x"), lit(<<"a">>), lit(<<"b">>)}
Simple(p) ==
    CASE p.kind = "Either" -> p.x \in ChainArgs /\ p.y \in ChainArgs
      [] p.kind = "Bind" -> p.parsec \in ChainArgs
      [] p.kind \in {"Then", "Over"} -> p.prefix \in ChainArgs /\ p.postfix \in ChainArgs
      [] OTHER -> FALSE

(* ----------------------------- trace events ---------------------------- *)

CallEv(path, p, at) == [ev |-> "call", path |-> path, parser |-> p, pos |-> at]
RetEv(path, at, val) == [ev |-> "ret", path |-> path, pos |-> at, val |-> val]
BinderEv(path, arg) == [ev |-> "binder", path |-> path, arg |-> arg]

Outcome(val, st, tr) == [val |-> val, state |-> st, trace |-> tr]

(* ------------------------------ invocation ----------------------------- *)

RECURSIVE Call(_, _, _)

\* pack that reads a token
pack_call_Consumes(data, st, path) ==
    Outcome(Ok(data), seek_to(st, IF pos(st) < Len(st.buffer) THEN pos(st) + 1 ELSE pos(st)), <<>>)

\* closure of pack: ignores the state, Ok(data.clone())
pack_call(data, st, path) == Outcome(Ok(data), st, <<>>)

\* fail that reports the beginning of the stream
fail_call_AtZero(msg, st, path) == Outcome(Err(SimpleError(0, msg)), st, <<>>)

\* closure of fail: Err(SimpleError::new(state.pos(), msg.clone()))
fail_call(msg, st, path) == Outcome(Err(SimpleError(pos(st), msg)), st, <<>>)

\* user-supplied parser: reads a token with next() for each expected token and
\* succeeds with a value made from the last token it matched
TokenValue(t) == IF t = "a" THEN 1 ELSE 42

RECURSIVE lit_match(_, _)
lit_match(ts, st) ==
    IF ts = <<>> THEN [ok |-> TRUE, state |-> st, message |-> ""]
    ELSE IF st.index >= Len(st.buffer) THEN [ok |-> FALSE, state |-> st, message |-> "eof"]
    ELSE LET t == st.buffer[st.index + 1]
             st1 == [st EXCEPT !.index = @ + 1]
         IN  IF t = Head(ts) THEN lit_match(Tail(ts), st1)
             ELSE [ok |-> FALSE, state |-> st1, message |-> "neq"]

lit_call(ts, st, path) ==
    LET m == lit_match(ts, st)
    IN  IF m.ok THEN Outcome(Ok(TokenValue(ts[Len(ts)])), m.state, <<>>)
        ELSE Outcome(Err(SimpleError(pos(m.state), m.message)), m.state, <<>>)

\* try that forgets to rewind
try_call_NoSeek(parsec, st, path) ==
    LET r == Call(parsec, st, path \o <<"parsec">>)
    IN  Outcome(r.val, r.state, r.trace)

\* try that rewinds to the beginning of the stream
try_call_SeekZero(parsec, st, path) ==
    LET r == Call(parsec, st, path \o <<"parsec">>)
    IN  IF is_err(r.val)
        THEN Outcome(r.val, seek_to(r.state, 0), r.trace)
        ELSE Outcome(r.val, r.state, r.trace)

\* try that rewinds on success too
try_call_AlwaysSeek(parsec, st, path) ==
    LET p0 == pos(st)
        r == Call(parsec, st, path \o <<"parsec">>)
    IN  Outcome(r.val, seek_to(r.state, p0), r.trace)

\* try whose wrapped parser is moved out at the first call: it fails from the second on
try_call_Once(parsec, st, path) ==
    LET p0 == pos(st)
        r == Call(parsec, st, path \o <<"parsec">>)
    IN  IF calls > 0 THEN Outcome(Err(SimpleError(p0, "moved")), seek_to(r.state, p0), r.trace)
        ELSE IF is_err(r.val)
        THEN Outcome(r.val, seek_to(r.state, p0), r.trace)
        ELSE Outcome(r.val, r.state, r.trace)

\* closure of try
try_call(parsec, st, path) ==
    LET p0 == pos(st)
        r == Call(parsec, st, path \o <<"parsec">>)
    IN  IF is_err(r.val)
        THEN Outcome(r.val, seek_to(r.state, p0), r.trace)
        ELSE Outcome(r.val, r.state, r.trace)

\* either that runs both alternatives before it picks one
EitherCallOnce_Eager(x, y, st, path) ==
    LET p0 == pos(st)
        rx == Call(x, st, path \o <<"x">>)
        ry == Call(y, rx.state, path \o <<"y">>)
    IN  IF is_ok(rx.val) THEN Outcome(rx.val, ry.state, rx.trace \o ry.trace)
        ELSE IF p0 = pos(rx.state)
             THEN Outcome(ry.val, ry.state, rx.trace \o ry.trace)
             ELSE rx

EitherCallOnce(x, y, st, path) ==
    LET p0 == pos(st)
        rx == Call(x, st, path \o <<"x">>)
    IN  IF is_ok(rx.val) THEN rx
        ELSE IF p0 = pos(rx.state)
             THEN LET ry == Call(y, rx.state, path \o <<"y">>)
                  IN  Outcome(ry.val, ry.state, rx.trace \o ry.trace)
             ELSE rx

\* either that gives x a second chance before it falls back to y
EitherCallMut_Retry(x, y, st, path) ==
    LET p0 == pos(st)
        rx == Call(x, st, path \o <<"x">>)
    IN  IF is_ok(rx.val) THEN rx
        ELSE IF p0 = pos(rx.state)
             THEN LET rx2 == Call(x, rx.state, path \o <<"x">>)
                      ry == Call(y, rx2.state, path \o <<"y">>)
                  IN  Outcome(ry.val, ry.state, rx.trace \o rx2.trace \o ry.trace)
             ELSE rx

\* either that falls back to y whatever x consumed
EitherCallMut_NoLock(x, y, st, path) ==
    LET rx == Call(x, st, path \o <<"x">>)
    IN  IF is_ok(rx.val) THEN rx
        ELSE LET ry == Call(y, rx.state, path \o <<"y">>)
             IN  Outcome(ry.val, ry.state, rx.trace \o ry.trace)

\* either that reports x's error when y fails too
EitherCallMut_FirstError(x, y, st, path) ==
    LET p0 == pos(st)
        rx == Call(x, st, path \o <<"x">>)
    IN  IF is_ok(rx.val) THEN rx
        ELSE IF p0 = pos(rx.state)
             THEN LET ry == Call(y, rx.state, path \o <<"y">>)
                  IN  Outcome(IF is_ok(ry.val) THEN ry.val ELSE rx.val,
                              ry.state, rx.trace \o ry.trace)
             ELSE rx

EitherCallMut(x, y, st, path) ==
    LET p0 == pos(st)
        rx == Call(x, st, path \o <<"x">>)
    IN  IF is_ok(rx.val) THEN rx
        ELSE IF p0 = pos(rx.state)
             THEN LET ry == Call(y, rx.state, path \o <<"y">>)
                  IN  Outcome(ry.val, ry.state, rx.trace \o ry.trace)
             ELSE rx

\* bind whose call_once hands the binder a fixed value
BindCallOnce_FixedValue(parsec, binder, st, path) ==
    LET r1 == Call(parsec, st, path \o <<"parsec">>)
    IN  IF is_ok(r1.val)
        THEN LET p == ApplyBinder(binder, 1)
                 r2 == Call(p, r1.state, path \o <<"p">>)
             IN  Outcome(r2.val, r2.state,
                         r1.trace \o <<BinderEv(path \o <<"binder">>, 1)>> \o r2.trace)
        ELSE Outcome(Err(r1.val.err), r1.state, r1.trace)

BindCallOnce(parsec, binder, st, path) ==
    LET r1 == Call(parsec, st, path \o <<"parsec">>)
    IN  IF is_ok(r1.val)
        THEN LET p == ApplyBinder(binder, r1.val.val)
                 r2 == Call(p, r1.state, path \o <<"p">>)
             IN  Outcome(r2.val, r2.state,
                         r1.trace \o <<BinderEv(path \o <<"binder">>, r1.val.val)>> \o r2.trace)
        ELSE Outcome(Err(r1.val.err), r1.state, r1.trace)

\* bind that runs the continuation on the state bind was entered with
BindCallMut_AtStart(parsec, binder, st, path) ==
    LET r1 == Call(parsec, st, path \o <<"parsec">>)
    IN  IF is_ok(r1.val)
        THEN LET p == ApplyBinder(binder, r1.val.val)
                 r2 == Call(p, st, path \o <<"p">>)
             IN  Outcome(r2.val, r2.state,
                         r1.trace \o <<BinderEv(path \o <<"binder">>, r1.val.val)>> \o r2.trace)
        ELSE Outcome(Err(r1.val.err), r1.state, r1.trace)

BindCallMut(parsec, binder, st, path) ==
    LET r1 == Call(parsec, st, path \o <<"parsec">>)
    IN  IF is_ok(r1.val)
        THEN LET p == ApplyBinder(binder, r1.val.val)
                 r2 == Call(p, r1.state, path \o <<"p">>)
             IN  Outcome(r2.val, r2.state,
                         r1.trace \o <<BinderEv(path \o <<"binder">>, r1.val.val)>> \o r2.trace)
        ELSE Outcome(Err(r1.val.err), r1.state, r1.trace)

\* then that runs postfix before prefix
ThenCallOnce_RightFirst(prefix, postfix, st, path) ==
    LET r2 == Call(postfix, st, path \o <<"postfix">>)
        r1 == Call(prefix, r2.state, path \o <<"prefix">>)
    IN  IF is_ok(r1.val)
        THEN Outcome(r2.val, r1.state, r2.trace \o r1.trace)
        ELSE Outcome(Err(r1.val.err), r1.state, r2.trace \o r1.trace)

ThenCallOnce(prefix, postfix, st, path) ==
    LET r1 == Call(prefix, st, path \o <<"prefix">>)
    IN  IF is_ok(r1.val)
        THEN LET r2 == Call(postfix, r1.state, path \o <<"postfix">>)
             IN  Outcome(r2.val, r2.state, r1.trace \o r2.trace)
        ELSE Outcome(Err(r1.val.err), r1.state, r1.trace)

\* then that reports prefix's failure at the position then was entered at
ThenCallMut_Reposition(prefix, postfix, st, path) ==
    LET r1 == Call(prefix, st, path \o <<"prefix">>)
    IN  IF is_ok(r1.val)
        THEN LET r2 == Call(postfix, r1.state, path \o <<"postfix">>)
             IN  Outcome(r2.val, r2.state, r1.trace \o r2.trace)
        ELSE Outcome(Err(SimpleError(pos(st), r1.val.err.message)), r1.state, r1.trace)

\* then that runs postfix whatever prefix returned
ThenCallMut_NoShortCircuit(prefix, postfix, st, path) ==
    LET r1 == Call(prefix, st, path \o <<"prefix">>)
        r2 == Call(postfix, r1.state, path \o <<"postfix">>)
    IN  Outcome(IF is_ok(r1.val) THEN r2.val ELSE Err(r1.val.err),
                r2.state, r1.trace \o r2.trace)

ThenCallMut(prefix, postfix, st, path) ==
    LET r1 == Call(prefix, st, path \o <<"prefix">>)
    IN  IF is_ok(r1.val)
        THEN LET r2 == Call(postfix, r1.state, path \o <<"postfix">>)
             IN  Outcome(r2.val, r2.state, r1.trace \o r2.trace)
        ELSE Outcome(Err(r1.val.err), r1.state, r1.trace)

\* over that rewinds to where it started when postfix fails
OverCallOnce_Backtrack(prefix, postfix, st, path) ==
    LET p0 == pos(st)
        r1 == Call(prefix, st, path \o <<"prefix">>)
    IN  IF is_ok(r1.val)
        THEN LET r2 == Call(postfix, r1.state, path \o <<"postfix">>)
             IN  IF is_ok(r2.val)
                 THEN Outcome(Ok(r1.val.val), r2.state, r1.trace \o r2.trace)
                 ELSE Outcome(Err(r2.val.err), seek_to(r2.state, p0), r1.trace \o r2.trace)
        ELSE Outcome(Err(r1.val.err), r1.state, r1.trace)

OverCallOnce(prefix, postfix, st, path) ==
    LET r1 == Call(prefix, st, path \o <<"prefix">>)
    IN  IF is_ok(r1.val)
        THEN LET r2 == Call(postfix, r1.state, path \o <<"postfix">>)
             IN  Outcome(IF is_ok(r2.val) THEN Ok(r1.val.val) ELSE Err(r2.val.err),
                         r2.state, r1.trace \o r2.trace)
        ELSE Outcome(Err(r1.val.err), r1.state, r1.trace)

\* over that keeps the value of postfix
OverCallMut_KeepsRight(prefix, postfix, st, path) ==
    LET r1 == Call(prefix, st, path \o <<"prefix">>)
    IN  IF is_ok(r1.val)
        THEN LET r2 == Call(postfix, r1.state, path \o <<"postfix">>)
             IN  Outcome(r2.val, r2.state, r1.trace \o r2.trace)
        ELSE Outcome(Err(r1.val.err), r1.state, r1.trace)

OverCallMut(prefix, postfix, st, path) ==
    LET r1 == Call(prefix, st, path \o <<"prefix">>)
    IN  IF is_ok(r1.val)
        THEN LET r2 == Call(postfix, r1.state, path \o <<"postfix">>)
             IN  Outcome(IF is_ok(r2.val) THEN Ok(r1.val.val) ELSE Err(r2.val.err),
                         r2.state, r1.trace \o r2.trace)
        ELSE Outcome(Err(r1.val.err), r1.state, r1.trace)

\* body of a parser value; a boxed composite is a Box<FnMut>, run by call_mut
Body(p, st, path) ==
    CASE p.kind = "pack" -> pack_call(p.data, st, path)
      [] p.kind = "fail" -> fail_call(p.msg, st, path)
      [] p.kind = "lit" -> lit_call(p.ts, st, path)
      [] p.kind = "try" -> try_call(p.parsec, st, path)
      [] p.kind = "Either" -> EitherCallMut(p.x, p.y, st, path)
      [] p.kind = "Bind" -> BindCallMut(p.parsec, p.binder, st, path)
      [] p.kind = "Then" -> ThenCallMut(p.prefix, p.postfix, st, path)
      [] p.kind = "Over" -> OverCallMut(p.prefix, p.postfix, st, path)

\* invocation of the constituent found at path: logged on entry and on return
Call(p, st, path) ==
    LET r == Body(p, st, path)
    IN  Outcome(r.val, r.state,
                <<CallEv(path, p, pos(st))>> \o r.trace \o <<RetEv(path, pos(r.state), r.val)>>)

(* ------------------------------- state ---------------------------------- *)

NoResult == Err(SimpleError(0, "not invoked"))

RECURSIVE Wraps(_)
Wraps(p) == IF p.kind = "try" THEN 1 + Wraps(p.parsec) ELSE 0

\* how the parser value was built: by a constructor function or by a method
Direct == [by |-> "fn"]
Method(by, self, arg) == [by |-> by, self |-> self, arg |-> arg]

\* the first invocation of the parser value
NoFirst == [start |-> 0, result |-> NoResult, end |-> 0]

Fresh(st) ==
    /\ state = st
    /\ parser = None
    /\ owned = FALSE
    /\ calls = 0
    /\ start = 0
    /\ result = NoResult
    /\ trace = <<>>
    /\ via = "none"
    /\ made = Direct
    /\ first = NoFirst

Init == \E buffer \in Buffers : \E index \in 0..Len(buffer) : Fresh(VecState(buffer, index))

\* another stream, or another cursor position, is handed to the next parser
NewState ==
    /\ parser = None
    /\ \E buffer \in Buffers : \E index \in 0..Len(buffer) :
          state' = VecState(buffer, index)
    /\ UNCHANGED <<parser, owned, calls, start, result, trace, via, made, first>>

\* the parser value goes out of scope; the stream stays where it is
Drop ==
    /\ parser # None
    /\ parser' = None
    /\ owned' = FALSE
    /\ calls' = 0
    /\ start' = 0
    /\ result' = NoResult
    /\ trace' = <<>>
    /\ via' = "none"
    /\ made' = Direct
    /\ first' = NoFirst
    /\ UNCHANGED state

Build(p) ==
    /\ parser' = p
    /\ owned' = TRUE
    /\ made' = Direct
    /\ UNCHANGED <<state, calls, start, result, trace, via, first>>

\* c.m(arg): the method m of the parser value, which consumes it
Chain(m, arg, p) ==
    /\ parser' = p
    /\ owned' = TRUE
    /\ made' = Method(m, parser, arg)
    /\ UNCHANGED <<state, calls, start, result, trace, via, first>>

CanChain(kind, m) ==
    /\ parser.kind = kind /\ m \in Methods(kind)
    /\ owned /\ calls = 0 /\ made = Direct /\ Simple(parser)

Pack == parser = None /\ \E data \in Values : Build(pack(data))
Fail == parser = None /\ \E msg \in Msgs : Build(fail(msg))
Lit == parser = None /\ \E ts \in Literals : Build(lit(ts))
Try ==
    /\ parser # None /\ owned /\ calls = 0 /\ made = Direct
    /\ Wraps(parser) < MaxWrap
    /\ Build(try(parser))
Either == parser = None /\ \E x \in Args, y \in Args : Build(either(x, y))
Bind == parser = None /\ \E parsec \in Args, binder \in Binders : Build(bind(parsec, binder))
Then == parser = None /\ \E prefix \in Args, postfix \in Args : Build(then(prefix, postfix))
Over == parser = None /\ \E prefix \in Args, postfix \in Args : Build(over(prefix, postfix))

EitherOr == CanChain("Either", "or") /\ \E p \in ChainArgs : Chain("or", p, Either_or(parser, p))
BindOver ==
    CanChain("Bind", "over") /\ \E postfix \in ChainArgs : Chain("over", postfix, Bind_over(parser, postfix))
BindBind ==
    CanChain("Bind", "bind") /\ \E binder \in Binders : Chain("bind", binder, Bind_bind(parser, binder))
BindThen ==
    CanChain("Bind", "then") /\ \E postfix \in ChainArgs : Chain("then", postfix, Bind_then(parser, postfix))
ThenOver ==
    CanChain("Then", "over") /\ \E postfix \in ChainArgs : Chain("over", postfix, Then_over(parser, postfix))
ThenThen ==
    CanChain("Then", "then") /\ \E postfix \in ChainArgs : Chain("then", postfix, Then_then(parser, postfix))
ThenBind ==
    CanChain("Then", "bind") /\ \E binder \in Binders : Chain("bind", binder, Then_bind(parser, binder))
OverOver ==
    CanChain("Over", "over") /\ \E postfix \in ChainArgs : Chain("over", postfix, Over_over(parser, postfix))
OverThen ==
    CanChain("Over", "then") /\ \E postfix \in ChainArgs : Chain("then", postfix, Over_then(parser, postfix))
OverBind ==
    CanChain("Over", "bind") /\ \E binder \in Binders : Chain("bind", binder, Over_bind(parser, binder))

Invoke(r, how) ==
    /\ state' = r.state
    /\ result' = r.val
    /\ trace' = r.trace
    /\ start' = pos(state)
    /\ calls' = calls + 1
    /\ via' = how
    /\ owned' = (how # "call_once")
    /\ first' = IF calls = 0
                THEN [start |-> pos(state), result |-> r.val, end |-> pos(r.state)]
                ELSE first
    /\ UNCHANGED <<parser, made>>

CanInvoke(kind) == parser.kind = kind /\ owned /\ calls < MaxCalls

InvokePack == CanInvoke("pack") /\ Invoke(pack_call(parser.data, state, <<>>), "call")
InvokeFail == CanInvoke("fail") /\ Invoke(fail_call(parser.msg, state, <<>>), "call")
InvokeLit == CanInvoke("lit") /\ Invoke(lit_call(parser.ts, state, <<>>), "call")
InvokeTry == CanInvoke("try") /\ Invoke(try_call(parser.parsec, state, <<>>), "call")

InvokeEitherOnce ==
    CanInvoke("Either") /\ Invoke(EitherCallOnce(parser.x, parser.y, state, <<>>), "call_once")
InvokeEitherMut ==
    CanInvoke("Either") /\ Invoke(EitherCallMut(parser.x, parser.y, state, <<>>), "call_mut")
InvokeBindOnce ==
    CanInvoke("Bind") /\ Invoke(BindCallOnce(parser.parsec, parser.binder, state, <<>>), "call_once")
InvokeBindMut ==
    CanInvoke("Bind") /\ Invoke(BindCallMut(parser.parsec, parser.binder, state, <<>>), "call_mut")
InvokeThenOnce ==
    CanInvoke("Then") /\ Invoke(ThenCallOnce(parser.prefix, parser.postfix, state, <<>>), "call_once")
InvokeThenMut ==
    CanInvoke("Then") /\ Invoke(ThenCallMut(parser.prefix, parser.postfix, state, <<>>), "call_mut")
InvokeOverOnce ==
    CanInvoke("Over") /\ Invoke(OverCallOnce(parser.prefix, parser.postfix, state, <<>>), "call_once")
InvokeOverMut ==
    CanInvoke("Over") /\ Invoke(OverCallMut(parser.prefix, parser.postfix, state, <<>>), "call_mut")

Next ==
    \/ NewState
    \/ Drop
    \/ Pack
    \/ Fail
    \/ Lit
    \/ Try
    \/ Either
    \/ Bind
    \/ Then
    \/ Over
    \/ EitherOr
    \/ BindOver
    \/ BindBind
    \/ BindThen
    \/ ThenOver
    \/ ThenThen
    \/ ThenBind
    \/ OverOver
    \/ OverThen
    \/ OverBind
    \/ InvokePack
    \/ InvokeFail
    \/ InvokeLit
    \/ InvokeTry
    \/ InvokeEitherOnce
    \/ InvokeEitherMut
    \/ InvokeBindOnce
    \/ InvokeBindMut
    \/ InvokeThenOnce
    \/ InvokeThenMut
    \/ InvokeOverOnce
    \/ InvokeOverMut

Spec == Init /\ [][Next]_vars

(* ------------------------- reading the trace --------------------------- *)

Idx(ev, path) == {i \in DOMAIN trace : trace[i].ev = ev /\ trace[i].path = path}
Invocations(path) == Cardinality(Idx("call", path))
Entered(path) == trace[CHOOSE i \in Idx("call", path) : TRUE]
Returned(path) == trace[CHOOSE i \in Idx("ret", path) : TRUE]
Failed(path) == Idx("ret", path) # {} /\ is_err(Returned(path).val)
Succeeded(path) == Idx("ret", path) # {} /\ is_ok(Returned(path).val)
Ran(kind) == parser.kind = kind /\ calls > 0

(* ------------------------------- claims --------------------------------- *)

\* C1: either progress-lock.  When x fails and leaves the cursor at a
\* position different from the start position, either(x, y) returns exactly
\* x's error, never invokes y, and leaves the cursor where x left it.
C1_EitherProgressLock ==
    (Ran("Either") /\ Failed(<<"x">>) /\ Returned(<<"x">>).pos # start) =>
        /\ result = Returned(<<"x">>).val
        /\ Invocations(<<"y">>) = 0
        /\ pos(state) = Returned(<<"x">>).pos

\* x failed after consuming a token, and y is a pack that would have succeeded
C1_Witness ==
    /\ Ran("Either") /\ Failed(<<"x">>) /\ Returned(<<"x">>).pos > start
    /\ parser.y.kind = "pack"
    /\ is_err(result)

\* C2: either no-progress fallback.  When x fails with the cursor still at
\* the start position, y is invoked exactly once, at the start position, and
\* its result (success or failure) is the result of either; x's error is
\* discarded and the cursor ends where y left it.
C2_EitherFallback ==
    (Ran("Either") /\ Failed(<<"x">>) /\ Returned(<<"x">>).pos = start) =>
        /\ Invocations(<<"y">>) = 1
        /\ Entered(<<"y">>).pos = start
        /\ result = Returned(<<"y">>).val
        /\ pos(state) = Returned(<<"y">>).pos

\* x failed without progress, y failed too with another error, after consuming
C2_Witness ==
    /\ Ran("Either") /\ Failed(<<"x">>) /\ Returned(<<"x">>).pos = start
    /\ Failed(<<"y">>)
    /\ Returned(<<"y">>).val # Returned(<<"x">>).val
    /\ pos(state) > start

\* C3: try restores the position on failure.  When the wrapped parser fails,
\* after consuming any number of tokens, try returns the very error the parser
\* produced (position and message) and the cursor is back at the start position.
C3_TryRestores ==
    (Ran("try") /\ Failed(<<"parsec">>)) =>
        /\ result = Returned(<<"parsec">>).val
        /\ pos(state) = start

\* the wrapped parser failed two tokens after the start position
C3_Witness ==
    /\ Ran("try") /\ Failed(<<"parsec">>)
    /\ Returned(<<"parsec">>).pos = start + 2
    /\ result.err.pos = start + 2

C5_EitherLeftBiased ==
    (Ran("Either") /\ Succeeded(<<"x">>)) =>
        /\ result = Returned(<<"x">>).val
        /\ Invocations(<<"y">>) = 0
        /\ pos(state) = Returned(<<"x">>).pos

\* x succeeded after consuming, y is a parser that would have succeeded too
C5_Witness ==
    /\ Ran("Either") /\ Succeeded(<<"x">>)
    /\ pos(state) > start
    /\ parser.y.kind = "pack"
    /\ parser.y.data # result.val

\* C6: bind dynamic continuation.  When P succeeds with v, the binder is
\* called exactly once, with v; the parser it returns is run exactly once,
\* from the position P left, and its result and final position are those of
\* bind.  When P fails, the binder is never called, no continuation runs, and
\* P's failure is returned with the cursor where P left it.
C6_BindContinuation ==
    /\ (Ran("Bind") /\ Succeeded(<<"parsec">>)) =>
          /\ Cardinality(Idx("binder", <<"binder">>)) = 1
          /\ \A i \in Idx("binder", <<"binder">>) :
                trace[i].arg = Returned(<<"parsec">>).val.val
          /\ Invocations(<<"p">>) = 1
          /\ Entered(<<"p">>).parser = ApplyBinder(parser.binder, Returned(<<"parsec">>).val.val)
          /\ Entered(<<"p">>).pos = Returned(<<"parsec">>).pos
          /\ result = Returned(<<"p">>).val
          /\ pos(state) = Returned(<<"p">>).pos
    /\ (Ran("Bind") /\ Failed(<<"parsec">>)) =>
          /\ Idx("binder", <<"binder">>) = {}
          /\ Invocations(<<"p">>) = 0
          /\ result = Returned(<<"parsec">>).val
          /\ pos(state) = Returned(<<"parsec">>).pos

\* P consumed a token and succeeded with 42, for which the binder "token"
\* answers another parser than for 1; that parser consumed a token too
C6_Witness ==
    /\ Ran("Bind") /\ Succeeded(<<"parsec">>)
    /\ Returned(<<"parsec">>).val.val = 42
    /\ Returned(<<"parsec">>).pos > start
    /\ Entered(<<"p">>).parser # ApplyBinder(parser.binder, 1)
    /\ Returned(<<"p">>).pos > Returned(<<"parsec">>).pos
    /\ is_ok(result)

\* C7: then/over short-circuit.  When prefix fails, postfix is not invoked,
\* the result is prefix's failure and the cursor is where prefix left it.
C7_SeqShortCircuit ==
    ((Ran("Then") \/ Ran("Over")) /\ Failed(<<"prefix">>)) =>
        /\ Invocations(<<"postfix">>) = 0
        /\ result = Returned(<<"prefix">>).val
        /\ pos(state) = Returned(<<"prefix">>).pos

\* prefix failed after consuming a token, in a then and by call_mut
C7_Witness ==
    /\ Ran("Then") /\ via = "call_mut" /\ Failed(<<"prefix">>)
    /\ Returned(<<"prefix">>).pos > start
    /\ parser.postfix.kind = "pack"

\* C8: over returns left, then returns right.  When prefix succeeds with A
\* leaving the cursor at p1 and postfix, run from p1, succeeds with B leaving
\* the cursor at p2, over yields success(A) and then yields success(B), both
\* with the cursor at p2.
C8_OverLeftThenRight ==
    ((Ran("Then") \/ Ran("Over")) /\ Succeeded(<<"prefix">>) /\ Succeeded(<<"postfix">>)) =>
        /\ Entered(<<"postfix">>).pos = Returned(<<"prefix">>).pos
        /\ pos(state) = Returned(<<"postfix">>).pos
        /\ Ran("Over") => result = Ok(Returned(<<"prefix">>).val.val)
        /\ Ran("Then") => result = Ok(Returned(<<"postfix">>).val.val)

\* an over whose prefix and postfix each consumed a token and A # B
C8_Witness ==
    /\ Ran("Over") /\ Succeeded(<<"prefix">>) /\ Succeeded(<<"postfix">>)
    /\ Returned(<<"prefix">>).pos > start
    /\ Returned(<<"postfix">>).pos > Returned(<<"prefix">>).pos
    /\ Returned(<<"prefix">>).val # Returned(<<"postfix">>).val

\* C9: then/over do not backtrack.  When prefix succeeds, leaving the cursor
\* at p1, and postfix fails, the result is postfix's failure and the cursor is
\* where postfix left it, at or after p1; it is not put back to the position
\* the sequence started at.
C9_SeqNoBacktrack ==
    ((Ran("Then") \/ Ran("Over")) /\ Succeeded(<<"prefix">>) /\ Failed(<<"postfix">>)) =>
        /\ result = Returned(<<"postfix">>).val
        /\ pos(state) = Returned(<<"postfix">>).pos
        /\ pos(state) >= Returned(<<"prefix">>).pos
        /\ Returned(<<"prefix">>).pos > start => pos(state) # start

\* an over, by call_once, whose prefix consumed a token and whose postfix failed
C9_Witness ==
    /\ Ran("Over") /\ via = "call_once"
    /\ Succeeded(<<"prefix">>) /\ Failed(<<"postfix">>)
    /\ Returned(<<"prefix">>).pos > start

\* C10: try is transparent on success.  When P succeeds, try(P) returns P's
\* success value and leaves the cursor where P left it, which are the value
\* and the position that P invoked directly from the same position yields.
C10_TryTransparent ==
    (Ran("try") /\ Succeeded(<<"parsec">>)) =>
        /\ result = Returned(<<"parsec">>).val
        /\ pos(state) = Returned(<<"parsec">>).pos
        /\ LET direct == Body(parser.parsec, seek_to(state, start), <<>>)
           IN  result = direct.val /\ state = direct.state

\* P succeeded after consuming two tokens
C10_Witness ==
    /\ Ran("try") /\ Succeeded(<<"parsec">>)
    /\ pos(state) = start + 2

(* ------------------------- C11 .. C19 ------------------------------------ *)

IdxOf(ev, path) == CHOOSE i \in Idx(ev, path) : TRUE
\* the constituent at path a had returned when the one at path b was invoked
After(a, b) == Idx("ret", a) # {} /\ IdxOf("ret", a) < IdxOf("call", b)
Entry(st) == seek_to(st, start)
Composites == {"Either", "Bind", "Then", "Over"}
Primitives == {"pack", "fail", "lit"}

\* C11: the .or chain.  either(x, y).or(p) behaves as either(either(x, y), p):
\* x is tried first; y is invoked exactly when x failed with the cursor at the
\* start position; p is invoked exactly when the inner alternation failed with
\* the cursor at the start position; each after the one before it returned.
C11_OrChain ==
    (made.by = "or" /\ calls > 0) =>
        LET x == made.self.x
            y == made.self.y
            p == made.arg
            want == Body(either(either(x, y), p), Entry(state), <<>>)
        IN  /\ result = want.val /\ state = want.state /\ trace = want.trace
            /\ trace[1] = CallEv(<<"x">>, either(x, y), start)
            /\ trace[2] = CallEv(<<"x", "x">>, x, start)
            /\ Invocations(<<"x", "x">>) = 1
            /\ Invocations(<<"x", "y">>) <= 1
            /\ Invocations(<<"y">>) <= 1
            /\ Invocations(<<"x", "y">>) = 1 <=>
                  (Failed(<<"x", "x">>) /\ Returned(<<"x", "x">>).pos = start)
            /\ Invocations(<<"x", "y">>) = 1 =>
                  /\ Entered(<<"x", "y">>).parser = y
                  /\ After(<<"x", "x">>, <<"x", "y">>)
            /\ Invocations(<<"y">>) = 1 <=>
                  (Failed(<<"x">>) /\ Returned(<<"x">>).pos = start)
            /\ Invocations(<<"y">>) = 1 =>
                  /\ Entered(<<"y">>).parser = p
                  /\ After(<<"x">>, <<"y">>)

\* x and y both failed without progress, p was tried and consumed a token
C11_Witness ==
    /\ made.by = "or" /\ calls > 0
    /\ Invocations(<<"x", "y">>) = 1
    /\ Invocations(<<"y">>) = 1
    /\ is_ok(result)
    /\ pos(state) > start

\* C12: pack never consumes, never fails.  Every invocation of pack(v), the
\* first and the later ones, returns success(v) and leaves the cursor where it
\* was.
C12_PackPure ==
    Ran("pack") =>
        /\ result = Ok(parser.data)
        /\ pos(state) = start
        /\ trace = <<>>

\* a second invocation of a pack, with tokens left to read
C12_Witness ==
    /\ Ran("pack") /\ calls = 2
    /\ pos(state) < Len(state.buffer)

\* C13: fail never succeeds.  Every invocation of fail(m) returns a failure
\* whose position is the cursor position at the invocation and whose message
\* is m, and leaves the cursor where it was.
C13_FailAlways ==
    Ran("fail") =>
        /\ result = Err(SimpleError(start, parser.msg))
        /\ pos(state) = start

\* a fail invoked at a position other than 0
C13_Witness ==
    /\ Ran("fail")
    /\ start > 0
    /\ result.err.pos = start

\* the composite that function f builds from c and its operand
ByFunction(f, c, arg) ==
    CASE f = "then" -> then(c, arg)
      [] f = "over" -> over(c, arg)
      [] f = "bind" -> bind(c, arg)

\* c.then(n), c.over(n) and c.bind(f) give the result and the cursor position
\* of then(c, n), over(c, n) and bind(c, f), with c as the prefix
SugarAgrees ==
    (made.by \in {"then", "over", "bind"} /\ calls > 0) =>
        LET want == Body(ByFunction(made.by, made.self, made.arg), Entry(state), <<>>)
        IN  /\ parser.kind = "Bind" => parser.parsec = made.self
            /\ parser.kind \in {"Then", "Over"} => parser.prefix = made.self
            /\ result = want.val
            /\ state = want.state

PrimitiveFailures ==
    {i \in 2..Len(trace) :
        /\ trace[i].ev = "ret"
        /\ is_err(trace[i].val)
        /\ trace[i - 1].ev = "call"
        /\ trace[i - 1].path = trace[i].path
        /\ trace[i - 1].parser.kind \in Primitives}
LastFailure(failures, i) ==
    LET before == {j \in failures : j <= i}
    IN  trace[CHOOSE j \in before : \A k \in before : k <= j]

\* C15: failures are propagated unmodified.  Whatever the nesting of try,
\* either, bind, then and over, a failure, of the invoked value and of each of
\* its constituents, is the error (position and message) of the primitive
\* parser that failed last; try rewinds the cursor but leaves the error alone.
C15_ErrorsUnmodified ==
    (calls > 0 /\ parser.kind \notin Primitives) =>
        LET failures == PrimitiveFailures
        IN  /\ \A i \in DOMAIN trace :
                  (trace[i].ev = "ret" /\ is_err(trace[i].val)) =>
                      /\ \E j \in failures : j <= i
                      /\ trace[i].val = LastFailure(failures, i).val
            /\ is_err(result) =>
                  /\ failures # {}
                  /\ result = LastFailure(failures, Len(trace)).val

\* a try around a composite: a primitive failed after two tokens were read,
\* try rewound, and the error still carries the position of the failure
C15_Witness ==
    /\ Ran("try") /\ parser.parsec.kind \in Composites
    /\ is_err(result)
    /\ pos(state) = start
    /\ result.err.pos = start + 2

RECURSIVE Nodes(_)
Nodes(p) ==
    CASE p.kind \in Primitives -> 1
      [] p.kind = "try" -> 1 + Nodes(p.parsec)
      [] p.kind = "Either" -> 1 + Nodes(p.x) + Nodes(p.y)
      [] p.kind = "Bind" -> 2 + Nodes(p.parsec)
      [] p.kind \in {"Then", "Over"} -> 1 + Nodes(p.prefix) + Nodes(p.postfix)

CallEvents == {i \in DOMAIN trace : trace[i].ev = "call"}

\* C17: every invocation ends with a definite result.  Each constituent that
\* was invoked has returned, once, before the invocation ended; the invocation
\* ran no more constituents than the parser value has (the parser a binder
\* returns counted), so it ends when they do: nothing is run again.
C17_Terminates ==
    calls > 0 =>
        /\ result.ok \in BOOLEAN
        /\ \A i \in CallEvents :
              /\ Cardinality(Idx("ret", trace[i].path)) = 1
              /\ IdxOf("ret", trace[i].path) > i
        /\ \A i \in DOMAIN trace : trace[i].ev = "ret" => Invocations(trace[i].path) = 1
        /\ Cardinality(CallEvents) <= Nodes(parser) - 1

\* a value built by a method, all of whose constituents ran
C17_Witness ==
    /\ calls > 0 /\ made.by \in {"or", "then", "over"}
    /\ Cardinality(CallEvents) = Nodes(parser) - 1
    /\ Nodes(parser) >= 5

Left(kind) ==
    CASE kind = "Either" -> <<"x">>
      [] kind = "Bind" -> <<"parsec">>
      [] kind \in {"Then", "Over"} -> <<"prefix">>
Right(kind) ==
    CASE kind = "Either" -> <<"y">>
      [] kind = "Bind" -> <<"p">>
      [] kind \in {"Then", "Over"} -> <<"postfix">>
LeftOf(p) ==
    CASE p.kind = "Either" -> p.x
      [] p.kind = "Bind" -> p.parsec
      [] p.kind \in {"Then", "Over"} -> p.prefix

\* C18: single-shot, left-to-right delegation.  One invocation of either,
\* bind, then or over invokes the left constituent first, at the start
\* position, exactly once; the binder and the right constituent at most once;
\* the right one only after the left one returned, at the position it left.
C18_SingleShot ==
    (calls > 0 /\ parser.kind \in Composites) =>
        LET l == Left(parser.kind)
            r == Right(parser.kind)
        IN  /\ trace[1] = CallEv(l, LeftOf(parser), start)
            /\ Invocations(l) = 1
            /\ Invocations(r) <= 1
            /\ Cardinality(Idx("binder", <<"binder">>)) <= 1
            /\ \A i \in Idx("binder", <<"binder">>) :
                  /\ IdxOf("ret", l) < i
                  /\ Invocations(r) = 1 /\ i < IdxOf("call", r)
            /\ Invocations(r) = 1 =>
                  /\ After(l, r)
                  /\ Entered(r).pos = Returned(l).pos

\* a bind whose parser consumed a token before the binder's parser ran
C18_Witness ==
    /\ Ran("Bind")
    /\ Invocations(<<"p">>) = 1
    /\ Returned(<<"parsec">>).pos > start
    /\ Entered(<<"p">>).pos > start

\* what call_once and call_mut of the parser value do from state st
ByCallOnce(p, st) ==
    CASE p.kind = "Either" -> EitherCallOnce(p.x, p.y, st, <<>>)
      [] p.kind = "Bind" -> BindCallOnce(p.parsec, p.binder, st, <<>>)
      [] p.kind = "Then" -> ThenCallOnce(p.prefix, p.postfix, st, <<>>)
      [] p.kind = "Over" -> OverCallOnce(p.prefix, p.postfix, st, <<>>)
ByCallMut(p, st) ==
    CASE p.kind = "Either" -> EitherCallMut(p.x, p.y, st, <<>>)
      [] p.kind = "Bind" -> BindCallMut(p.parsec, p.binder, st, <<>>)
      [] p.kind = "Then" -> ThenCallMut(p.prefix, p.postfix, st, <<>>)
      [] p.kind = "Over" -> OverCallMut(p.prefix, p.postfix, st, <<>>)

\* C19: consuming and borrowing invocation agree.  For Either, Bind, Then
\* and Over, call_once and call_mut from the same stream and position invoke
\* the same constituents in the same order and yield the same result and the
\* same final cursor position.
C19_OnceMutAgree ==
    (calls > 0 /\ parser.kind \in Composites) =>
        LET other == IF via = "call_once" THEN ByCallMut(parser, Entry(state))
                     ELSE ByCallOnce(parser, Entry(state))
        IN  /\ result = other.val
            /\ state = other.state
            /\ trace = other.trace

\* a bind invoked by call_once: its parser yielded 42 and the binder's parser ran
C19_Witness ==
    /\ Ran("Bind") /\ via = "call_once"
    /\ Succeeded(<<"parsec">>)
    /\ Returned(<<"parsec">>).val.val = 42
    /\ Invocations(<<"p">>) = 1

TypeOK ==
    /\ state.index \in 0..Len(state.buffer)
    /\ calls \in 0..MaxCalls
    /\ start \in 0..MaxLen + 1

====
